---- MODULE Spec2Model ----
(***************************************************************************)
(* Model of src/handler.py: the RunPod serverless handler that upscales a  *)
(* video (Real-ESRGAN), optionally restores faces frame by frame (GFPGAN), *)
(* optionally enhances the audio (ffmpeg) and publishes the result.        *)
(*                                                                         *)
(* One behaviour of the model is one call of handler(job).  Strings that   *)
(* the code inspects (URLs) are tuples of one-character strings.           *)
(***************************************************************************)
EXTENDS Integers, Sequences, FiniteSets, TLC

\* ------------------------------------------------------------------ bounds
\* Largest number of frames the upscaled video holds.
MaxFrames == 3

\* ------------------------------------------------------- program constants
\* job_input.get("scale", 4)
DefaultScale == 4

\* REALESRGAN_MODEL
REALESRGAN_MODEL == "realesr-general-x4v3"

\* ------------------------------------------------------------ value domain
\* Python's None, as returned by dict.get for a missing key.
NoneVal == <<"None">>

\* The default of job_input.get("upload_url", "").
EmptyStr == <<>>

\* Source URIs a job may carry: empty, with an extension, without one, with a
\* query string, without a path component.
VideoUrls ==
    { <<>>,
      <<"h", "/", "v", ".", "m">>,
      <<"h", "/", "v">>,
      <<"h", "/", "v", ".", "m", "?", "k", ".", "s">>,
      <<"h", ".", "c">> }

\* Destinations a job may carry: empty, plain, pre-signed with a query string.
UploadUrls ==
    { <<>>,
      <<"u", "/", "o">>,
      <<"u", "/", "o", "?", "k">>,
      <<"u", "?", "k", "?", "j">> }

\* Scale values a caller may send (the handler accepts whatever is sent).
ScaleValues == {2, 3, 4}

JobKeys == {"video_url", "scale", "model", "face_restore", "audio_enhance", "upload_url"}

\* The job["input"] dictionaries: `keys` is the set of keys present; the value
\* of an absent key is never read and is fixed to one representative.
JobInputs ==
    { j \in [ keys : SUBSET JobKeys,
              video_url : VideoUrls,
              scale : ScaleValues,
              model : {REALESRGAN_MODEL},
              face_restore : BOOLEAN,
              audio_enhance : BOOLEAN,
              upload_url : UploadUrls ] :
        /\ "video_url" \notin j.keys => j.video_url = <<>>
        /\ "scale" \notin j.keys => j.scale = DefaultScale
        /\ "model" \in j.keys
        /\ "face_restore" \notin j.keys => j.face_restore = TRUE
        /\ "audio_enhance" \notin j.keys => j.audio_enhance = TRUE
        /\ "upload_url" \notin j.keys => j.upload_url = <<>> }

\* dict.get(key, default)
Get(j, key, default) == IF key \in j.keys THEN j[key] ELSE default

\* Python truthiness of a string-or-None value: `if x` / `not x`.
Truthy(x) == x # NoneVal /\ x # <<>>

\* ------------------------------------------------------------ pure helpers
\* Index of the last occurrence of c in s, 0 when there is none (rfind + 1).
RECURSIVE RFind(_, _)
RFind(s, c) ==
    IF s = <<>> THEN 0
    ELSE IF s[Len(s)] = c THEN Len(s)
    ELSE RFind(SubSeq(s, 1, Len(s) - 1), c)

\* Index of the first occurrence of c in s, 0 when there is none (find + 1).
RECURSIVE Find(_, _)
Find(s, c) ==
    IF s = <<>> THEN 0
    ELSE IF s[1] = c THEN 1
    ELSE LET r == Find(Tail(s), c) IN IF r = 0 THEN 0 ELSE r + 1

\* str.split(sep): the list of pieces between separators.
RECURSIVE Split(_, _)
Split(s, sep) ==
    LET i == Find(s, sep) IN
    IF i = 0 THEN <<s>>
    ELSE <<SubSeq(s, 1, i - 1)>> \o Split(SubSeq(s, i + 1, Len(s)), sep)

\* pathlib's parsing of a relative POSIX path: the components between "/",
\* empty components and "." components dropped.
PathParts(s) == SelectSeq(Split(s, "/"), LAMBDA p : p # <<>> /\ p # <<".">>)

\* PurePath.name: the final component, empty when there is none.
PathName(s) ==
    LET parts == PathParts(s) IN
    IF parts = <<>> THEN <<>> ELSE parts[Len(parts)]

\* PurePath.suffix: the part of the name from its last dot, when that dot is
\* neither the first nor the last character of the name.
PathSuffix(s) ==
    LET name == PathName(s)
        i == RFind(name, ".")
    IN IF 1 < i /\ i < Len(name) THEN SubSeq(name, i, Len(name)) ELSE <<>>

\* Path(video_url).suffix or ".mp4"
DefaultExt == <<".", "m", "p", "4">>
InputExt(url) == IF PathSuffix(url) # <<>> THEN PathSuffix(url) ELSE DefaultExt

\* upload_url.split('?')[0]
StripQueryLast(url) ==
    IF RFind(url, "?") = 0 THEN url ELSE SubSeq(url, 1, RFind(url, "?") - 1)
StripQuery(url) == Split(url, "?")[1]

\* restorer.enhance(frame, paste_back=True)[2]: the restored frame.
Enhance(frame) == [restored_from |-> frame]

\* The frames of a decoded video of n frames, in stream order.
Frames(n) == [i \in 1..n |-> i]


\* The descriptor of an artifact nothing has been written to: frame rate (in
\* thousandths of a frame per second), frame width and height, size in bytes.
NoMeta == [ fps |-> 0, w |-> 0, h |-> 0, bytes |-> 0 ]

\* The videos a source URI may deliver.
SourceMetas ==
    { [ fps |-> 24000, w |-> 2, h |-> 1, bytes |-> 5 ],
      [ fps |-> 29970, w |-> 1, h |-> 2, bytes |-> 7 ] }

\* Size of a video file of n frames of w x h pixels, container included.
EncodedBytes(w, h, n) == w * h * (n + 1)

\* The video realesrgan-ncnn-vulkan writes for input m at scale sc, n frames
\* long: same frame rate, width and height multiplied by the scale.
UpscaledMeta(m, sc, n) ==
    [ fps |-> m.fps, w |-> m.w * sc, h |-> m.h * sc,
      bytes |-> EncodedBytes(m.w * sc, m.h * sc, n) ]

\* cap.get(prop): cv2 reports every property as a double, here in thousandths.
CapGet(m, prop) == IF prop = "fps" THEN m.fps ELSE m[prop] * 1000

\* int(x) of a double in thousandths.
IntOf(x) == x \div 1000

\* cv2.VideoWriter(output_path, fourcc, fps, (w, h)): the descriptor of the
\* file the encoder opens.
VideoWriterSwapped(fps, w, h) == [ fps |-> fps, w |-> h, h |-> w, bytes |-> 0 ]
VideoWriter(fps, w, h) == [ fps |-> fps, w |-> w, h |-> h, bytes |-> 0 ]

\* The stages of the pipeline and the artifacts they write to the workspace.
Stages == {"fetch", "upscale", "face_restore", "audio_enhance", "publish"}
Artifacts == {"input", "upscaled", "restored", "audio_enhanced"}

\* ------------------------------------------------------------------- state
VARIABLES
    pc,             \* position of the handler in its code
    job,            \* job["input"]
    video_url,      \* locals of handler, lines 124-129
    scale,
    model,
    face_restore,
    audio_enhance,
    upload_url,
    tmpdir,         \* "none", "exists" or "deleted": the TemporaryDirectory
    files,          \* names of the artifacts present in the workspace
    input_ext,      \* extension of the input artifact
    current,        \* handler's `current` artifact, "none" before line 143
    video,          \* frames held by the upscaled artifact
    active,         \* stages whose call has started and not yet ended
    calls,          \* stages invoked so far, in invocation order
    reads,          \* <<stage, artifact>> for every artifact read so far
    failure,        \* the stage call that raised, "none" if none did
    cap,            \* cv2.VideoCapture: "none", "open" or "released"
    out,            \* cv2.VideoWriter: "none", "open" or "released"
    pos,            \* frames decoded so far by cap.read()
    frame,          \* <<f>> for the decoded frame f not yet restored, else <<>>
    restored,       \* <<r>> for the restored frame r not yet written, else <<>>
    decoded,        \* every frame cap.read() has returned, in order
    written,        \* every frame given to out.write(), in order
    frame_count,    \* restore_faces_video's frame_count
    outcomes,       \* how each stage's external call ended, "none" before
    published,      \* the artifact passed to upload_result, "none" before
    uploaded,       \* artifacts sent by requests.put
    result_url,     \* value returned by upload_result
    pending,        \* what leaves the `with` block: a return value or an exception
    ret,            \* how handler(job) ended
    now,            \* time.time(), in ticks
    meta            \* stream descriptor and byte size of each artifact as written

vars == << pc, job, video_url, scale, model, face_restore, audio_enhance,
           upload_url, tmpdir, files, input_ext, current, video, active, calls,
           reads, failure, cap, out, pos, frame, restored, decoded, written,
           frame_count, outcomes, published, uploaded, result_url,
           pending, ret, now, meta >>

locals == << video_url, scale, model, face_restore, audio_enhance, upload_url >>
faceVars == << cap, out, pos, frame, restored, decoded, written, frame_count >>
publishVars == << published, uploaded, result_url >>

\* The value of `result_url` before upload_result has returned.
NoLocation ==
    [ kind |-> "none", url |-> <<>>, dir |-> "none", path |-> "none", size |-> 0 ]

\* The value of `ret` and `pending` while nothing has been returned or raised.
NoResult ==
    [ kind |-> "none", fields |-> {}, error |-> "", exc |-> "",
      video_url |-> NoLocation, duration_secs |-> 0, scale |-> 0,
      face_restore |-> FALSE, audio_enhance |-> FALSE ]

\* return {"error": msg}
ErrorRecord(msg) ==
    [ NoResult EXCEPT !.kind = "returned", !.fields = {"error"}, !.error = msg ]

\* The dictionary of lines 158-164 with audio_enhance reporting whether the
\* audio stage took effect.
SuccessRecordAudioApplied(url, secs, sc, fr, ae) ==
    [ kind |-> "returned",
      fields |-> {"video_url", "duration_secs", "scale", "face_restore", "audio_enhance"},
      error |-> "", exc |-> "", video_url |-> url, duration_secs |-> secs,
      scale |-> sc, face_restore |-> fr,
      audio_enhance |-> (ae /\ current = "audio_enhanced") ]

\* The dictionary returned at lines 158-164.
SuccessRecord(url, secs, sc, fr, ae) ==
    [ NoResult EXCEPT !.kind = "returned",
        !.fields = {"video_url", "duration_secs", "scale", "face_restore", "audio_enhance"},
        !.video_url = url, !.duration_secs = secs, !.scale = sc,
        !.face_restore = fr, !.audio_enhance = ae ]

\* An exception of the given type on its way out of the handler.
Raised(exc) == [ NoResult EXCEPT !.kind = "raised", !.exc = exc ]

Init ==
    /\ pc = "start"
    /\ job \in JobInputs
    /\ video_url = NoneVal
    /\ scale = DefaultScale
    /\ model = REALESRGAN_MODEL
    /\ face_restore = TRUE
    /\ audio_enhance = TRUE
    /\ upload_url = EmptyStr
    /\ tmpdir = "none"
    /\ files = {}
    /\ input_ext = <<>>
    /\ current = "none"
    /\ video = <<>>
    /\ active = {}
    /\ calls = <<>>
    /\ reads = <<>>
    /\ failure = "none"
    /\ cap = "none"
    /\ out = "none"
    /\ pos = 0
    /\ frame = <<>>
    /\ restored = <<>>
    /\ decoded = <<>>
    /\ written = <<>>
    /\ frame_count = 0
    /\ outcomes = [s \in Stages |-> "none"]
    /\ published = "none"
    /\ uploaded = {}
    /\ result_url = NoLocation
    /\ pending = NoResult
    /\ ret = NoResult
    /\ now = 0
    /\ meta = [a \in Artifacts |-> NoMeta]

\* ----------------------------------------------------------------- helpers
\* A stage call starts: it becomes active and is recorded.
Invoke(stage) ==
    /\ active' = active \cup {stage}
    /\ calls' = Append(calls, stage)

\* A stage call raises: the exception leaves the `with` block.
Raise(stage, exc) ==
    /\ active' = active \ {stage}
    /\ failure' = stage
    /\ pending' = Raised(exc)
    /\ pc' = "exit_with"

\* ------------------------------------------------------------ handler entry
\* Lines 120-132: read the job input, reject a job without video_url.
\* `if not video_url`
HandlerStartMissingNoneOnly(url) == url = NoneVal
HandlerStartMissing(url) == ~Truthy(url)

HandlerStart ==
    /\ pc = "start"
    /\ video_url' = Get(job, "video_url", NoneVal)
    /\ scale' = Get(job, "scale", DefaultScale)
    /\ model' = Get(job, "model", REALESRGAN_MODEL)
    /\ face_restore' = Get(job, "face_restore", TRUE)
    /\ audio_enhance' = Get(job, "audio_enhance", TRUE)
    /\ upload_url' = Get(job, "upload_url", EmptyStr)
    /\ IF HandlerStartMissing(video_url')
       THEN /\ ret' = ErrorRecord("video_url required")
            /\ pc' = "done"
       ELSE /\ ret' = ret
            /\ pc' = "enter_with"
    /\ UNCHANGED << meta, job, tmpdir, files, input_ext, current, video, active, calls,
                    reads, failure, faceVars, outcomes, publishVars,
                    pending, now >>

\* The workspace created without keeping its handle: it is removed at once.
EnterWithDangling ==
    /\ pc = "enter_with"
    /\ tmpdir' = "deleted"
    /\ input_ext' = InputExt(video_url)
    /\ pc' = "fetch_call"
    /\ UNCHANGED << meta, job, locals, files, current, video, active, calls, reads,
                    failure, faceVars, outcomes, publishVars, pending,
                    ret, now >>

\* Lines 134-136: create the workspace, choose the input artifact's extension.
EnterWith ==
    /\ pc = "enter_with"
    /\ tmpdir' = "exists"
    /\ input_ext' = InputExt(video_url)
    /\ pc' = "fetch_call"
    /\ UNCHANGED << meta, job, locals, files, current, video, active, calls, reads,
                    failure, faceVars, outcomes, publishVars, pending,
                    ret, now >>


\* -------------------------------------------------------------------- Fetch
\* Line 137: the call of download_file starts.
FetchCall ==
    /\ pc = "fetch_call"
    /\ Invoke("fetch")
    /\ pc' = "fetch_run"
    /\ UNCHANGED << meta, job, locals, tmpdir, files, input_ext, current, video, reads,
                    failure, faceVars, outcomes, publishVars, pending,
                    ret, now >>

\* How download_file can end: the body streamed to disk, a non-success status
\* (raise_for_status), or the 300 s timeout / a connection error.
FetchOutcomes == {"ok", "http_error", "timeout"}

\* Whether download_file raises on the outcome.
FetchRaises(o) == o # "ok"

\* Lines 16-23: download_file ends.
FetchReturn ==
    /\ pc = "fetch_run"
    /\ now' = now + 1
    /\ \E o \in FetchOutcomes :
         /\ outcomes' = [outcomes EXCEPT !["fetch"] = o]
         /\ IF FetchRaises(o)
            THEN /\ Raise("fetch", IF o = "timeout" THEN "Timeout" ELSE "HTTPError")
                 \* a transfer cut by the timeout may leave a partial file
                 /\ \E partial \in BOOLEAN :
                      files' = IF o = "timeout" /\ partial
                               THEN files \cup {"input"} ELSE files
                 /\ UNCHANGED << calls, meta >>
            ELSE /\ files' = files \cup {"input"}
                 /\ \E m \in SourceMetas : meta' = [meta EXCEPT !["input"] = m]
                 /\ active' = active \ {"fetch"}
                 /\ pc' = "upscale_call"
                 /\ UNCHANGED << calls, failure, pending >>
    /\ UNCHANGED << job, locals, tmpdir, input_ext, current, video, reads,
                    faceVars, publishVars, ret >>

\* ------------------------------------------------------------------ Upscale
\* Lines 140-141: the call of run_realesrgan starts; it reads the input.
UpscaleCall ==
    /\ pc = "upscale_call"
    /\ Invoke("upscale")
    /\ reads' = Append(reads, <<"upscale", "input">>)
    /\ pc' = "upscale_run"
    /\ UNCHANGED << meta, job, locals, tmpdir, files, input_ext, current, video,
                    failure, faceVars, outcomes, publishVars, pending,
                    ret, now >>

\* How the subprocess of a stage can end: exit status 0, a non-zero exit
\* status, the timeout of subprocess.run, or the executable failing to start.
ProcessOutcomes == {"ok", "nonzero", "timeout", "nostart"}

\* The exception subprocess.run itself raises on an outcome, "" when it returns.
SubprocessException(o) ==
    IF o = "timeout" THEN "TimeoutExpired"
    ELSE IF o = "nostart" THEN "FileNotFoundError"
    ELSE ""

\* The exception run_realesrgan ends with, "" when it returns output_path:
\* subprocess.run's own, or RuntimeError for a non-zero returncode.
UpscaleExceptionNoCheck(o) == SubprocessException(o)
UpscaleException(o) ==
    IF o = "nonzero" THEN "RuntimeError" ELSE SubprocessException(o)

\* run_realesrgan called again after a first non-zero exit.
UpscaleReturnRetrying ==
    /\ pc = "upscale_run"
    /\ now' = now + 1
    /\ \E o \in ProcessOutcomes :
         /\ outcomes' = [outcomes EXCEPT !["upscale"] = o]
         /\ IF o = "nonzero" /\ Len(calls) < Cardinality(Stages)
            THEN /\ active' = active \ {"upscale"}
                 /\ pc' = "upscale_call"
                 /\ UNCHANGED << files, video, current, failure, pending, meta >>
            ELSE IF UpscaleException(o) # ""
            THEN /\ Raise("upscale", UpscaleException(o))
                 /\ UNCHANGED << files, video, current, meta >>
            ELSE /\ files' = files \cup {"upscaled"}
                 /\ \E n \in 0..MaxFrames : video' = Frames(n)
                 /\ meta' = [meta EXCEPT !["upscaled"] =
                                 UpscaledMeta(meta["input"], scale, Len(video'))]
                 /\ current' = "upscaled"
                 /\ active' = active \ {"upscale"}
                 /\ pc' = "face_check"
                 /\ UNCHANGED << failure, pending >>
    /\ UNCHANGED << job, locals, tmpdir, input_ext, calls, reads, faceVars,
                    publishVars, ret >>

\* Lines 81-94 and 143: run_realesrgan ends; on success `current` is the
\* upscaled artifact.
UpscaleReturn ==
    /\ pc = "upscale_run"
    /\ now' = now + 1
    /\ \E o \in ProcessOutcomes :
         /\ outcomes' = [outcomes EXCEPT !["upscale"] = o]
         /\ IF UpscaleException(o) # ""
            THEN /\ Raise("upscale", UpscaleException(o))
                 /\ UNCHANGED << files, video, current, meta >>
            ELSE /\ files' = files \cup {"upscaled"}
                 /\ \E n \in 0..MaxFrames : video' = Frames(n)
                 /\ meta' = [meta EXCEPT !["upscaled"] =
                                 UpscaledMeta(meta["input"], scale, Len(video'))]
                 /\ current' = "upscaled"
                 /\ active' = active \ {"upscale"}
                 /\ pc' = "face_check"
                 /\ UNCHANGED << failure, pending >>
    /\ UNCHANGED << job, locals, tmpdir, input_ext, calls, reads, faceVars,
                    publishVars, ret >>


\* ------------------------------------------------------------- Face Restore
\* Line 146: `if face_restore:`
ShouldRestoreAlways(flag) == TRUE
ShouldRestore(flag) == flag

\* Lines 146-148: face_restore is set, the call of restore_faces_video starts.
FaceCall ==
    /\ pc = "face_check"
    /\ ShouldRestore(face_restore)
    /\ Invoke("face_restore")
    /\ pc' = "face_init"
    /\ UNCHANGED << meta, job, locals, tmpdir, files, input_ext, current, video, reads,
                    failure, faceVars, outcomes, publishVars, pending,
                    ret, now >>

\* Line 146: face_restore is not set, the stage is skipped.
FaceSkip ==
    /\ pc = "face_check"
    /\ ~ShouldRestore(face_restore)
    /\ pc' = "audio_check"
    /\ UNCHANGED << meta, job, locals, tmpdir, files, input_ext, current, video, active,
                    calls, reads, failure, faceVars, outcomes, publishVars,
                    pending, ret, now >>

\* Lines 27-46: build the restorer (which may raise, the checkpoint being read
\* from disk), open the decoder on the input and the encoder on the output.
FaceInit ==
    /\ pc = "face_init"
    /\ \/ /\ Raise("face_restore", "RestorerInitError")
          /\ outcomes' = [outcomes EXCEPT !["face_restore"] = "init_error"]
          /\ UNCHANGED << files, reads, faceVars, meta >>
       \/ /\ cap' = "open"
          /\ out' = "open"
          /\ LET fps == CapGet(meta[current], "fps")
                 w == IntOf(CapGet(meta[current], "w"))
                 h == IntOf(CapGet(meta[current], "h"))
             IN meta' = [meta EXCEPT !["restored"] = VideoWriter(fps, w, h)]
          /\ reads' = Append(reads, <<"face_restore", current>>)
          /\ files' = files \cup {"restored"}
          /\ frame_count' = 0
          /\ pc' = "face_read"
          /\ UNCHANGED << active, failure, pending, pos, frame, restored,
                          decoded, written, outcomes >>
    /\ UNCHANGED << job, locals, tmpdir, input_ext, current, video, calls,
                    publishVars, ret, now >>

\* The frame loop without its `break`: the end of the stream is read again
\* and again.
FaceReadNoBreak ==
    /\ pc = "face_read"
    /\ IF pos < Len(video)
       THEN /\ frame' = << video[pos + 1] >>
            /\ decoded' = Append(decoded, video[pos + 1])
            /\ pos' = pos + 1
            /\ pc' = "face_enhance"
       ELSE /\ pc' = "face_read"
            /\ UNCHANGED << frame, decoded, pos >>
    /\ UNCHANGED << meta, job, locals, tmpdir, files, input_ext, current, video, active,
                    calls, reads, failure, cap, out, restored, written,
                    frame_count, outcomes, publishVars, pending, ret, now >>

\* Lines 47-50: cap.read() returns the next frame, or ret = False at the end of
\* the stream, which leaves the loop.
FaceRead ==
    /\ pc = "face_read"
    /\ IF pos < Len(video)
       THEN /\ frame' = << video[pos + 1] >>
            /\ decoded' = Append(decoded, video[pos + 1])
            /\ pos' = pos + 1
            /\ pc' = "face_enhance"
       ELSE /\ pc' = "face_release"
            /\ UNCHANGED << frame, decoded, pos >>
    /\ UNCHANGED << meta, job, locals, tmpdir, files, input_ext, current, video, active,
                    calls, reads, failure, cap, out, restored, written,
                    frame_count, outcomes, publishVars, pending, ret, now >>

\* Line 53: restorer.enhance returns the restored frame, or raises; nothing in
\* restore_faces_video catches the exception or releases cap and out on it.
FaceEnhance ==
    /\ pc = "face_enhance"
    /\ \/ /\ restored' = << Enhance(frame[1]) >>
          /\ frame' = <<>>
          /\ pc' = "face_write"
          /\ UNCHANGED << active, failure, pending, outcomes >>
       \/ /\ Raise("face_restore", "InferenceError")
          /\ outcomes' = [outcomes EXCEPT !["face_restore"] = "inference_error"]
          /\ UNCHANGED << frame, restored >>
    /\ UNCHANGED << meta, job, locals, tmpdir, files, input_ext, current, video, calls,
                    reads, cap, out, pos, decoded, written, frame_count,
                    publishVars, ret, now >>

\* out.write(restored): the frames the encoder holds after the write.
WriteFramePrepend(w, r) == <<r>> \o w
WriteFrameDropSecond(w, r) == IF Len(w) = 1 THEN w ELSE Append(w, r)
WriteFrame(w, r) == Append(w, r)

\* Lines 54-57: write the restored frame, count it, go round the loop.
FaceWrite ==
    /\ pc = "face_write"
    /\ written' = WriteFrame(written, restored[1])
    /\ restored' = <<>>
    /\ frame_count' = frame_count + 1
    /\ pc' = "face_read"
    /\ UNCHANGED << meta, job, locals, tmpdir, files, input_ext, current, video, active,
                    calls, reads, failure, cap, out, pos, frame, decoded,
                    outcomes, publishVars, pending, ret, now >>

\* Lines 59-62 and 149: release decoder and encoder, return output_path;
\* `current` becomes the restored artifact.
FaceRelease ==
    /\ pc = "face_release"
    /\ cap' = "released"
    /\ out' = "released"
    /\ current' = "restored"
    /\ active' = active \ {"face_restore"}
    /\ outcomes' = [outcomes EXCEPT !["face_restore"] = "ok"]
    /\ meta' = [meta EXCEPT !["restored"].bytes =
                    EncodedBytes(meta["restored"].w, meta["restored"].h, Len(written))]
    /\ now' = now + 1
    /\ pc' = "audio_check"
    /\ UNCHANGED << job, locals, tmpdir, files, input_ext, video, calls, reads,
                    failure, pos, frame, restored, decoded, written, frame_count,
                    publishVars, pending, ret >>

\* ------------------------------------------------------------ Audio Enhance
\* Line 152: `if audio_enhance:`
ShouldEnhance(flag) == flag

\* Lines 152-154: audio_enhance is set, the call of enhance_audio starts; ffmpeg
\* reads `current`.
AudioCall ==
    /\ pc = "audio_check"
    /\ ShouldEnhance(audio_enhance)
    /\ Invoke("audio_enhance")
    /\ reads' = Append(reads, <<"audio_enhance", current>>)
    /\ pc' = "audio_run"
    /\ UNCHANGED << meta, job, locals, tmpdir, files, input_ext, current, video,
                    failure, faceVars, outcomes, publishVars, pending,
                    ret, now >>

\* Line 152: audio_enhance is not set, the stage is skipped.
AudioSkip ==
    /\ pc = "audio_check"
    /\ ~ShouldEnhance(audio_enhance)
    /\ pc' = "publish_call"
    /\ UNCHANGED << meta, job, locals, tmpdir, files, input_ext, current, video, active,
                    calls, reads, failure, faceVars, outcomes, publishVars,
                    pending, ret, now >>

\* Lines 75-79: the path enhance_audio returns once subprocess.run has
\* returned: input_path on a non-zero returncode, output_path otherwise.
EnhanceAudioResultNoFallback(o, input_path, output_path) == output_path
EnhanceAudioResult(o, input_path, output_path) ==
    IF o = "nonzero" THEN input_path ELSE output_path

\* Lines 64-79 and 154: enhance_audio ends.  A timeout or a failure to start is
\* raised by subprocess.run and is not caught; a non-zero exit is swallowed.
AudioReturn ==
    /\ pc = "audio_run"
    /\ now' = now + 1
    /\ \E o \in ProcessOutcomes :
         /\ outcomes' = [outcomes EXCEPT !["audio_enhance"] = o]
         /\ IF SubprocessException(o) # ""
            THEN /\ Raise("audio_enhance", SubprocessException(o))
                 /\ \E partial \in BOOLEAN :
                      files' = IF o = "timeout" /\ partial
                               THEN files \cup {"audio_enhanced"} ELSE files
                 /\ UNCHANGED << current, meta >>
            ELSE /\ current' = EnhanceAudioResult(o, current, "audio_enhanced")
                 \* -c:v copy: the video stream of the input, unchanged
                 /\ meta' = IF o = "ok"
                            THEN [meta EXCEPT !["audio_enhanced"] = meta[current]]
                            ELSE meta
                 \* a failed ffmpeg run may leave a partial output behind
                 /\ \E partial \in BOOLEAN :
                      files' = IF o = "ok" \/ partial
                               THEN files \cup {"audio_enhanced"} ELSE files
                 /\ active' = active \ {"audio_enhance"}
                 /\ pc' = "publish_call"
                 /\ UNCHANGED << failure, pending >>
    /\ UNCHANGED << job, locals, tmpdir, input_ext, video, calls, reads,
                    faceVars, publishVars, ret >>


\* ------------------------------------------------------------------ Publish
\* Line 156: the call of upload_result starts with the current artifact.
PublishCall ==
    /\ pc = "publish_call"
    /\ Invoke("publish")
    /\ published' = current
    /\ pc' = "publish_run"
    /\ UNCHANGED << meta, job, locals, tmpdir, files, input_ext, current, video, reads,
                    failure, faceVars, outcomes, uploaded, result_url,
                    pending, ret, now >>

\* How requests.put can end: success, a non-success status, timeout.
PutOutcomes == {"ok", "http_error", "timeout"}

\* Whether upload_result raises on the outcome of the PUT (raise_for_status).
PutRaisesUnchecked(o) == o = "timeout"
PutRaises(o) == o # "ok"

\* Lines 102 and 106: the value upload_result returns.
UploadResultValue(file_path, url) ==
    IF Truthy(url)
    THEN [ NoLocation EXCEPT !.kind = "url", !.url = StripQuery(url) ]
    ELSE [ NoLocation EXCEPT !.kind = "file", !.dir = "tmpdir",
                             !.path = file_path, !.size = meta[file_path].bytes ]

\* Lines 96-106 and 158-164: upload_result ends.  With a destination it opens
\* the artifact and PUTs it; without one it asks for the artifact's size.
\* Either raises when the artifact is missing.  On success the handler builds
\* its result record and leaves the `with` block with it.
PublishReturn ==
    /\ pc = "publish_run"
    /\ now' = now + 1
    /\ reads' = Append(reads, <<"publish", published>>)
    /\ IF published \notin files
       THEN /\ Raise("publish", "FileNotFoundError")
            /\ outcomes' = [outcomes EXCEPT !["publish"] = "missing"]
            /\ UNCHANGED << uploaded, result_url >>
       ELSE IF Truthy(upload_url)
       THEN \E o \in PutOutcomes :
              /\ outcomes' = [outcomes EXCEPT !["publish"] = o]
              /\ IF PutRaises(o)
                 THEN /\ Raise("publish", IF o = "timeout" THEN "Timeout" ELSE "HTTPError")
                      /\ UNCHANGED << uploaded, result_url >>
                 ELSE /\ uploaded' = uploaded \cup {published}
                      /\ result_url' = UploadResultValue(published, upload_url)
                      /\ pending' = SuccessRecord(result_url', now', scale,
                                                  face_restore, audio_enhance)
                      /\ active' = active \ {"publish"}
                      /\ pc' = "exit_with"
                      /\ UNCHANGED << failure >>
       ELSE /\ result_url' = UploadResultValue(published, upload_url)
            /\ pending' = SuccessRecord(result_url', now', scale,
                                        face_restore, audio_enhance)
            /\ outcomes' = [outcomes EXCEPT !["publish"] = "ok"]
            /\ active' = active \ {"publish"}
            /\ pc' = "exit_with"
            /\ UNCHANGED << failure, uploaded >>
    /\ UNCHANGED << meta, job, locals, tmpdir, files, input_ext, current, video, calls,
                    faceVars, published, ret >>

\* ------------------------------------------------------- leaving the `with`
\* TemporaryDirectory.__exit__ removes the directory whether the block is left
\* by a return or by an exception.
CleansUpOnRaiseOnly(kind) == kind = "raised"
CleansUpOnReturnOnly(kind) == kind = "returned"
CleansUp(kind) == kind \in {"returned", "raised"}

\* Line 134, on leaving the block: the workspace is removed, then the return
\* value or the exception reaches the caller of handler.
WithExit ==
    /\ pc = "exit_with"
    /\ IF CleansUp(pending.kind)
       THEN /\ tmpdir' = "deleted"
            /\ files' = {}
       ELSE UNCHANGED << tmpdir, files >>
    /\ ret' = pending
    /\ pc' = "done"
    /\ UNCHANGED << meta, job, locals, input_ext, current, video, active, calls, reads,
                    failure, faceVars, outcomes, publishVars, pending, now >>

\* ------------------------------------------------------------ specification
Next ==
    \/ HandlerStart
    \/ EnterWith
    \/ FetchCall
    \/ FetchReturn
    \/ UpscaleCall
    \/ UpscaleReturn
    \/ FaceCall
    \/ FaceSkip
    \/ FaceInit
    \/ FaceRead
    \/ FaceEnhance
    \/ FaceWrite
    \/ FaceRelease
    \/ AudioCall
    \/ AudioSkip
    \/ AudioReturn
    \/ PublishCall
    \/ PublishReturn
    \/ WithExit

Spec == Init /\ [][Next]_vars

\* The handler runs on one thread and every call it makes returns or raises
\* (each external call ends or hits its timeout), so a step that can be taken
\* is eventually taken.
FairSpec == Spec /\ WF_vars(Next)

\* ------------------------------------------------------------------- typing
TypeOK ==
    /\ pc \in {"start", "enter_with", "fetch_call", "fetch_run", "upscale_call",
               "upscale_run", "face_check", "face_init", "face_read",
               "face_enhance", "face_write", "face_release", "audio_check",
               "audio_run", "publish_call", "publish_run", "exit_with", "done"}
    /\ job \in JobInputs
    /\ tmpdir \in {"none", "exists", "deleted"}
    /\ files \subseteq Artifacts
    /\ current \in Artifacts \cup {"none"}
    /\ active \subseteq Stages
    /\ failure \in Stages \cup {"none"}
    /\ cap \in {"none", "open", "released"}
    /\ out \in {"none", "open", "released"}
    /\ pos \in 0..Len(video)
    /\ frame_count \in 0..Len(video)
    /\ outcomes \in [Stages -> {"none", "ok", "http_error", "timeout", "nonzero",
                               "nostart", "init_error", "inference_error",
                               "missing"}]
    /\ published \in Artifacts \cup {"none"}
    /\ ret.kind \in {"none", "returned", "raised"}


\* ============================================================== properties
\* Position of each stage in the pipeline.
StageIndex ==
    [ fetch |-> 1, upscale |-> 2, face_restore |-> 3, audio_enhance |-> 4,
      publish |-> 5 ]

\* The stages invoked so far, as a set.
Invoked == { calls[i] : i \in 1..Len(calls) }

\* The ways each fatal stage's external call can fail.
FatalOutcomes ==
    [ fetch |-> {"http_error", "timeout"},
      upscale |-> {"nonzero", "timeout", "nostart"},
      face_restore |-> {"init_error", "inference_error"},
      audio_enhance |-> {},
      publish |-> {"http_error", "timeout", "missing"} ]

\* The stage's external call has failed in a way that is fatal to the job.
FailedFatally(s) == outcomes[s] \in FatalOutcomes[s]

\* The handler has returned the success record of lines 158-164.
ReturnedSuccess ==
    /\ pc = "done"
    /\ ret.kind = "returned"
    /\ ret.fields = {"video_url", "duration_secs", "scale", "face_restore", "audio_enhance"}

\* The artifact that is current when Audio Enhance is reached.
PreAudioArtifact == IF face_restore THEN "restored" ELSE "upscaled"

\* C1: if the audio-filter subprocess exits non-zero, the job is not aborted
\* by it: Publish is invoked with exactly the artifact that was current before
\* Audio Enhance (restored when face_restore is set, else upscaled), and
\* unless Publish itself fails the handler returns a success record.
C1_AudioNonZeroSoftFails ==
    outcomes["audio_enhance"] = "nonzero" =>
        /\ failure # "audio_enhance"
        /\ current = PreAudioArtifact
        /\ published \in {"none", PreAudioArtifact}
        /\ pc \in {"publish_call", "publish_run", "exit_with", "done"}
        /\ pc = "done" =>
              /\ published = PreAudioArtifact
              /\ ReturnedSuccess \/ failure = "publish"
              /\ ~FailedFatally("publish") => ReturnedSuccess

C1_Witness ==
    /\ outcomes["audio_enhance"] = "nonzero"
    /\ face_restore
    /\ published = "restored"
    /\ ReturnedSuccess

\* C2: after a fatal failure of Fetch, Upscale or Face Restore no later stage
\* has been invoked, and none is invoked from then on.
C2_NoStageAfterFatalFailure ==
    \A s \in {"fetch", "upscale", "face_restore"} :
        FailedFatally(s) =>
            /\ \A t \in Invoked : StageIndex[t] <= StageIndex[s]
            /\ pc \in {"exit_with", "done"}
            /\ active = {}

C2_Witness ==
    /\ pc = "done"
    /\ outcomes["upscale"] = "timeout"
    /\ Invoked = {"fetch", "upscale"}

\* C3 as stated: every fatal failure of Fetch, Upscale, Face Restore or
\* Publish ends the job with the handler returning a record {error: message}.
C3_FatalFailureReturnsErrorRecord ==
    (pc = "done" /\ \E s \in Stages : FailedFatally(s)) =>
        /\ ret.kind = "returned"
        /\ ret.fields = {"error"}

\* C3 amended: every fatal failure of Fetch, Upscale, Face Restore or Publish
\* ends the handler with the stage's exception propagating out of it; the
\* handler returns no record at all, neither a success nor a partial one.
C3_FatalFailureRaises ==
    (pc = "done" /\ \E s \in Stages : FailedFatally(s)) =>
        /\ ret.kind = "raised"
        /\ ret.exc # ""
        /\ ret.fields = {}
        /\ failure # "none" /\ FailedFatally(failure)

C3_Witness ==
    /\ pc = "done"
    /\ outcomes["publish"] = "http_error"
    /\ ret.kind = "raised"
    /\ ret.exc = "HTTPError"

\* C4: once the handler has finished a job that acquired a workspace, the
\* workspace and every artifact in it are gone, on the return path and on
\* every exception path.
C4_WorkspaceDeletedAtExit ==
    (pc = "done" /\ tmpdir # "none") =>
        /\ tmpdir = "deleted"
        /\ files = {}

C4_Witness ==
    /\ pc = "done"
    /\ ret.kind = "raised"
    /\ outcomes["audio_enhance"] = "timeout"
    /\ tmpdir = "deleted"

\* C5: the stages are invoked in the order Fetch, Upscale, Face Restore,
\* Audio Enhance, Publish, none more than once, a stage only after the one
\* invoked before it has ended, and at most one stage is active at a time.
C5_StagesInStrictOrder ==
    /\ \A i, j \in 1..Len(calls) : i < j => StageIndex[calls[i]] < StageIndex[calls[j]]
    /\ Cardinality(active) <= 1
    /\ active # {} => active = {calls[Len(calls)]}
    /\ \A s \in Invoked \ active : outcomes[s] # "none"

C5_Witness ==
    /\ calls = << "fetch", "upscale", "face_restore", "audio_enhance", "publish" >>
    /\ active = {"publish"}

\* The handler has decided whether to run Face Restore (line 146 is behind it).
PastFaceCheck == outcomes["upscale"] = "ok" /\ pc # "face_check"

\* The handler has decided whether to run Audio Enhance (line 152 is behind it).
PastAudioCheck ==
    /\ PastFaceCheck
    /\ ~FailedFatally("face_restore")
    /\ pc \notin {"face_init", "face_read", "face_enhance", "face_write",
                  "face_release", "audio_check"}

\* C6: for a job that gets past Upscale, Face Restore is invoked iff
\* face_restore is set and Audio Enhance iff audio_enhance is set; a skipped
\* stage leaves the current artifact unchanged, so with both flags unset
\* Publish receives the upscaled artifact.
C6_OptionalStagesFollowFlags ==
    /\ PastFaceCheck => ("face_restore" \in Invoked <=> face_restore)
    /\ PastAudioCheck => ("audio_enhance" \in Invoked <=> audio_enhance)
    /\ (PastFaceCheck /\ ~face_restore /\ pc = "audio_check") => current = "upscaled"
    /\ (PastAudioCheck /\ ~audio_enhance) => current = PreAudioArtifact
    /\ (published # "none" /\ ~face_restore /\ ~audio_enhance) =>
          /\ published = "upscaled"
          /\ Invoked = {"fetch", "upscale", "publish"}

C6_Witness ==
    /\ ~face_restore
    /\ ~audio_enhance
    /\ ReturnedSuccess
    /\ published = "upscaled"

\* job["input"] carries no usable video_url: the key is absent or its value
\* is the empty string.
NoVideoUrl == "video_url" \notin job.keys \/ job.video_url = <<>>

\* C7: a job without video_url (absent or empty) is rejected with
\* {error: "video_url required"} before any stage runs: no workspace is
\* acquired and no stage is invoked.
C7_MissingVideoUrlRejected ==
    NoVideoUrl =>
        /\ tmpdir = "none"
        /\ calls = <<>>
        /\ pc \in {"start", "done"}
        /\ pc = "done" => ret = ErrorRecord("video_url required")

C7_Witness ==
    /\ "video_url" \in job.keys
    /\ job.video_url = <<>>
    /\ pc = "done"
    /\ ret = ErrorRecord("video_url required")

\* C8 as stated: whichever way the audio-filter invocation fails (non-zero
\* exit, timeout, failure to start), the job is not aborted: Publish is invoked
\* with the pre-stage artifact.
C8_NoAudioFailureAborts ==
    (pc = "done" /\ outcomes["audio_enhance"] \in {"nonzero", "timeout", "nostart"}) =>
        /\ failure # "audio_enhance"
        /\ "publish" \in Invoked
        /\ published = PreAudioArtifact

\* Face Restore has run to completion (restore_faces_video has returned).
FaceRestoreCompleted == outcomes["face_restore"] = "ok"

\* C9: when Face Restore completes, the frames written to the encoder are the
\* restored decoded frames, one each and in order: as many written as decoded,
\* for every input length including zero.
C9_FramesWrittenEqualDecoded ==
    FaceRestoreCompleted =>
        /\ Len(decoded) = Len(video)
        /\ Len(written) = Len(decoded)
        /\ frame_count = Len(decoded)
        /\ \A i \in 1..Len(decoded) : written[i] = Enhance(decoded[i])

C9_Witness ==
    /\ FaceRestoreCompleted
    /\ Len(decoded) >= 2
    /\ Len(written) = Len(decoded)

\* C10 as stated: on every exit from Face Restore, the exception exits
\* included, neither the decoder nor the encoder is left open.
C10_DecoderEncoderReleased ==
    ("face_restore" \in Invoked /\ "face_restore" \notin active) =>
        /\ cap # "open"
        /\ out # "open"


\* Two artifacts hold video of the same frame rate, width and height.
SameStream(a, b) ==
    /\ meta[a].fps = meta[b].fps
    /\ meta[a].w = meta[b].w
    /\ meta[a].h = meta[b].h

\* C11: the encoder of Face Restore is opened with exactly the frame rate,
\* width and height of the video it decodes, so the restored artifact, and the
\* artifact a successful job publishes, have the frame rate and dimensions of
\* the upscaled artifact.
C11_StreamDescriptorPreserved ==
    /\ out # "none" => SameStream("restored", "upscaled")
    /\ ReturnedSuccess => SameStream(published, "upscaled")

C11_Witness ==
    /\ ReturnedSuccess
    /\ face_restore
    /\ published = "audio_enhanced"
    /\ meta["upscaled"].w # meta["upscaled"].h
    /\ meta["upscaled"].fps = 29970
    /\ SameStream("audio_enhanced", "upscaled")

\* The artifacts read so far by the stages after Upscale.
ReadAfterUpscale ==
    { reads[i][2] : i \in { k \in 1..Len(reads) : reads[k][1] # "upscale" } }

\* C12: after Upscale every stage reads only the artifact that is current when
\* it reads (so never one that has been superseded), and after an audio
\* soft-fail the pre-audio artifact stays current and the failed audio output
\* is never read.
C12_OnlyCurrentArtifactRead ==
    [][ /\ reads' # reads =>
            /\ Len(reads') = Len(reads) + 1
            /\ reads'[Len(reads')][1] # "upscale" => reads'[Len(reads')][2] = current
        /\ outcomes'["audio_enhance"] = "nonzero" =>
            /\ current' = PreAudioArtifact
            /\ "audio_enhanced" \notin ReadAfterUpscale' ]_vars

C12_Witness ==
    /\ outcomes["audio_enhance"] = "nonzero"
    /\ reads = << <<"upscale", "input">>, <<"face_restore", "upscaled">>,
                  <<"audio_enhance", "restored">>, <<"publish", "restored">> >>

\* C13 as stated: the upscale executable is never invoked with a scale other
\* than 2 or 4.
C13_ScaleValidated ==
    "upscale" \in Invoked => scale \in {2, 4}

\* The characters of a string.
Chars(u) == { u[i] : i \in 1..Len(u) }

\* u is url cut before its first "?".
IsUrlWithoutQuery(u, url) ==
    /\ Len(u) <= Len(url)
    /\ u = SubSeq(url, 1, Len(u))
    /\ "?" \notin Chars(u)
    /\ Len(u) < Len(url) => url[Len(u) + 1] = "?"

C15_TerminatesExactlyOnce ==
    /\ <>(pc = "done" /\ ret.kind \in {"returned", "raised"})
    /\ [](pc = "done" =>
             \/ ReturnedSuccess
             \/ ret.kind = "returned" /\ ret.fields = {"error"}
             \/ ret.kind = "raised")
    /\ [][ret.kind # "none" => ret' = ret /\ pc' = "done"]_vars

C15_Witness ==
    /\ ReturnedSuccess
    /\ FaceRestoreCompleted
    /\ Len(written) >= 2

\* C16: in the frame loop each decoded frame is restored and written before
\* the next one is decoded: at most one frame is decoded and not yet written,
\* and the frames written are the restored decoded frames in decoding order.
C16_OneFrameInFlight ==
    /\ Len(decoded) - Len(written) \in {0, 1}
    /\ Len(frame) + Len(restored) = Len(decoded) - Len(written)
    /\ \A i \in 1..Len(written) : written[i] = Enhance(decoded[i])
    /\ pc = "face_read" => Len(written) = Len(decoded)

C16_Witness ==
    /\ pc = "face_write"
    /\ Len(decoded) = 2
    /\ Len(written) = 1

\* C17: every read or write of an artifact, the upload included, happens while
\* the workspace exists; the workspace is created before Fetch starts and is
\* deleted only once Publish has completed or a stage has failed.
C17_ArtifactsUsedInsideWorkspace ==
    /\ [][ ( \/ reads' # reads
             \/ uploaded' # uploaded
             \/ ~(files' \subseteq files)
             \/ decoded' # decoded
             \/ written' # written
             \/ meta' # meta )
           => tmpdir = "exists" /\ tmpdir' = "exists" ]_vars
    /\ [](active # {} => tmpdir = "exists")
    /\ [](calls # <<>> => tmpdir # "none")
    /\ [](tmpdir = "deleted" =>
             /\ pc = "done"
             /\ active = {}
             /\ outcomes["publish"] = "ok" \/ failure # "none")

C17_Witness ==
    /\ pc = "publish_run"
    /\ Truthy(upload_url)
    /\ tmpdir = "exists"
    /\ published \in files

C19_RecordEchoesRequest ==
    ReturnedSuccess =>
        /\ ret.scale = IF "scale" \in job.keys THEN job.scale ELSE 4
        /\ ret.face_restore = IF "face_restore" \in job.keys THEN job.face_restore ELSE TRUE
        /\ ret.audio_enhance = IF "audio_enhance" \in job.keys THEN job.audio_enhance ELSE TRUE
        /\ outcomes["audio_enhance"] = "nonzero" =>
              /\ ret.audio_enhance = TRUE
              /\ published = PreAudioArtifact

C19_Witness ==
    /\ ReturnedSuccess
    /\ outcomes["audio_enhance"] = "nonzero"
    /\ ret.audio_enhance = TRUE
    /\ "scale" \notin job.keys
    /\ ret.scale = 4
    /\ published # "audio_enhanced"

\* The path component of a URI of the form host[/path][?query].
UriPath(url) ==
    LET noQuery == Split(url, "?")[1]
        i == Find(noQuery, "/")
    IN IF i = 0 THEN <<>> ELSE SubSeq(noQuery, i, Len(noQuery))

\* The extension of the resource a URI names, ".mp4" when it has none.
ResourceExt(url) ==
    IF PathSuffix(UriPath(url)) # <<>> THEN PathSuffix(UriPath(url)) ELSE DefaultExt

\* C20 as stated: the input artifact written by Fetch has the extension of the
\* resource the URI names, .mp4 when it has none, also for URIs with a query
\* string or without a path component.
C20_InputExtensionMatchesUri ==
    tmpdir # "none" => input_ext = ResourceExt(video_url)

====
